---- MODULE Spec2Model ----
(***************************************************************************)
(* A model of internal/pom.go: the Project / Grammar name derivation, the  *)
(* grammar header scanner ParseG4 and the descriptor reader ParsePom.      *)
(*                                                                         *)
(* Go strings are modelled as sequences of one-character strings, so that  *)
(* strings.ToLower, TrimSuffix, HasPrefix, Index, TrimSpace and Fields are *)
(* computed character by character, as the library computes them.          *)
(***************************************************************************)
EXTENDS Integers, Sequences, FiniteSets, TLC

VARIABLES
    \* ---- name derivation (Project methods) ----
    Grammars,      \* p.Grammars of the Project the methods are called on
    call,          \* the method called last ("none" before the first call)
    ret,           \* what that call produced: a value, or a panic
    panicked,      \* TRUE once a panic has left a method (nothing recovers it)
    \* ---- ParseG4 ----
    g4File,        \* the grammar file: what os.Open / the scanner will deliver
    g4Pc,          \* "start", "scan", "done"
    g4Pos,         \* number of lines the scanner has delivered
    g4Handles,     \* *os.File values opened by ParseG4 and not closed
    g4Ret,         \* (*Grammar, error) returned
    \* ---- ParsePom ----
    p,             \* the Project being built
    pc,            \* "start", "loop", "done"
    depth,         \* open (entered, not yet ended) elements around the decoder
    nread,         \* number of tokens taken from the decoder
    last,          \* the token handled last, and what the handler did with it
    pomHandle,     \* 1 while the descriptor's *os.File is open
    grammarHandles,\* *os.File values opened by the ParseG4 calls, not closed
    logged,        \* what log.Printf has written, in order
    pomRet         \* (*Project, error) returned

nameVars == <<Grammars, call, ret, panicked>>
g4Vars   == <<g4File, g4Pc, g4Pos, g4Handles, g4Ret>>
pomVars  == <<p, pc, depth, nread, last, pomHandle, grammarHandles, logged, pomRet>>
vars     == <<nameVars, g4Vars, pomVars>>

(***************************************************************************)
(* Strings                                                                 *)
(***************************************************************************)
UpperCase == <<"A","B","C","D","E","F","G","H","I","J","K","L","M",
               "N","O","P","Q","R","S","T","U","V","W","X","Y","Z">>
LowerCase == <<"a","b","c","d","e","f","g","h","i","j","k","l","m",
               "n","o","p","q","r","s","t","u","v","w","x","y","z">>

\* strings.ToLower, one character
ToLowerChar(c) ==
    IF \E i \in DOMAIN UpperCase : UpperCase[i] = c
    THEN LowerCase[CHOOSE i \in DOMAIN UpperCase : UpperCase[i] = c]
    ELSE c

\* strings.ToLower
ToLower(s) == [i \in 1..Len(s) |-> ToLowerChar(s[i])]

\* strings.HasPrefix
HasPrefix(s, prefix) ==
    Len(s) >= Len(prefix) /\ SubSeq(s, 1, Len(prefix)) = prefix

\* strings.HasSuffix
HasSuffix(s, suffix) ==
    Len(s) >= Len(suffix) /\ SubSeq(s, Len(s) - Len(suffix) + 1, Len(s)) = suffix

\* strings.TrimSuffix
TrimSuffix(s, suffix) ==
    IF HasSuffix(s, suffix) THEN SubSeq(s, 1, Len(s) - Len(suffix)) ELSE s

\* unicode.IsSpace on the characters the inputs use
IsSpace(c) == c \in {" ", "\t", "\r"}

\* strings.TrimSpace
RECURSIVE TrimLeft(_)
TrimLeft(s) ==
    IF s # <<>> /\ IsSpace(Head(s)) THEN TrimLeft(Tail(s)) ELSE s
RECURSIVE TrimRight(_)
TrimRight(s) ==
    IF s # <<>> /\ IsSpace(s[Len(s)]) THEN TrimRight(SubSeq(s, 1, Len(s) - 1)) ELSE s
TrimSpace(s) == TrimRight(TrimLeft(s))

\* strings.Index(s, c) for a one-character c: 0-based, -1 when absent
Index(s, c) ==
    IF \E i \in 1..Len(s) : s[i] = c
    THEN (CHOOSE i \in 1..Len(s) : s[i] = c /\ \A j \in 1..(i-1) : s[j] # c) - 1
    ELSE -1

\* strings.Fields: the maximal runs of non-space characters, in order
RECURSIVE FieldsFrom(_, _, _)
FieldsFrom(s, cur, acc) ==
    IF s = <<>> THEN (IF cur = <<>> THEN acc ELSE Append(acc, cur))
    ELSE IF IsSpace(Head(s))
         THEN FieldsFrom(Tail(s), <<>>, IF cur = <<>> THEN acc ELSE Append(acc, cur))
         ELSE FieldsFrom(Tail(s), Append(cur, Head(s)), acc)
Fields(s) == FieldsFrom(s, <<>>, <<>>)

\* string literals of the source
ParserS   == <<"P","a","r","s","e","r">>
LexerS    == <<"L","e","x","e","r">>
ListenerS == <<"L","i","s","t","e","n","e","r">>
DotGo           == <<".","g","o">>
GoLexerS        == <<"_","l","e","x","e","r">> \o DotGo
GoParserS       == <<"_","p","a","r","s","e","r">> \o DotGo
GoListenerS     == <<"_","l","i","s","t","e","n","e","r">> \o DotGo
GoBaseListenerS == <<"_","b","a","s","e">> \o GoListenerS
KwGrammar == <<"g","r","a","m","m","a","r">>
KwLexer   == <<"l","e","x","e","r">>
KwParser  == <<"p","a","r","s","e","r">>

(***************************************************************************)
(* Grammar and Project: the name derivation                                *)
(***************************************************************************)
Types == {"PARSER", "LEXER", "COMBINED"}

\* what a method call produced
Value(name)   == [kind |-> "value", name |-> name, files |-> <<>>, msg |-> ""]
Files(files)  == [kind |-> "value", name |-> <<>>, files |-> files, msg |-> ""]
Panic(msg)    == [kind |-> "panic", name |-> <<>>, files |-> <<>>, msg |-> msg]
NoCall        == [kind |-> "none",  name |-> <<>>, files |-> <<>>, msg |-> ""]

HasType(G, t) == \E i \in 1..Len(G) : G[i].Type = t

\* func (p *Project) findGrammarOfType(t string) *Grammar; called where HasType
\* holds (the callers test the result against nil first)
findGrammarOfType(G, t) ==
    G[CHOOSE i \in 1..Len(G) : G[i].Type = t /\ \A j \in 1..(i-1) : G[j].Type # t]

\* grammarParserName looking for a COMBINED grammar before a PARSER one
grammarParserNameCombinedFirst(G) ==
    IF HasType(G, "COMBINED")
    THEN Value(findGrammarOfType(G, "COMBINED").Name)
    ELSE IF HasType(G, "PARSER")
    THEN Value(TrimSuffix(findGrammarOfType(G, "PARSER").Name, ParserS))
    ELSE Panic("does not contain a parser")

\* func (p *Project) grammarParserName() string
grammarParserName(G) ==
    IF HasType(G, "PARSER")
    THEN Value(TrimSuffix(findGrammarOfType(G, "PARSER").Name, ParserS))
    ELSE IF HasType(G, "COMBINED")
    THEN Value(findGrammarOfType(G, "COMBINED").Name)
    ELSE Panic("does not contain a parser")

\* func (p *Project) grammarLexerName() string
grammarLexerName(G) ==
    IF HasType(G, "LEXER")
    THEN Value(TrimSuffix(findGrammarOfType(G, "LEXER").Name, LexerS))
    ELSE IF HasType(G, "COMBINED")
    THEN Value(findGrammarOfType(G, "COMBINED").Name)
    ELSE Panic("does not contain a lexer")

\* func (p *Project) ParserName() string: a panic of the callee passes through
ParserName(G) ==
    LET b == grammarParserName(G)
    IN  IF b.kind = "panic" THEN b ELSE Value(b.name \o ParserS)

\* func (p *Project) LexerName() string
LexerName(G) ==
    LET b == grammarLexerName(G)
    IN  IF b.kind = "panic" THEN b ELSE Value(b.name \o LexerS)

\* ListenerName returning a name built on "" where it has no grammar to name
ListenerNameNoPanic(G) ==
    IF HasType(G, "PARSER")
    THEN Value(findGrammarOfType(G, "PARSER").Name \o ListenerS)
    ELSE IF HasType(G, "COMBINED")
    THEN Value(findGrammarOfType(G, "COMBINED").Name \o ListenerS)
    ELSE Value(ListenerS)

\* func (p *Project) ListenerName() string
ListenerName(G) ==
    IF HasType(G, "PARSER")
    THEN Value(findGrammarOfType(G, "PARSER").Name \o ListenerS)
    ELSE IF HasType(G, "COMBINED")
    THEN Value(findGrammarOfType(G, "COMBINED").Name \o ListenerS)
    ELSE Panic("does not contain a parser")

\* case "LEXER" without the strings.TrimSuffix
LexerFilesKeepSuffix(g) ==
    << ToLower(g.Name) \o GoLexerS >>

\* func (g *Grammar) GeneratedFilenames() []string, case "LEXER"
LexerFiles(g) ==
    << ToLower(TrimSuffix(g.Name, LexerS)) \o GoLexerS >>

\* case "PARSER" without the strings.TrimSuffix
ParserFilesKeepSuffix(g) ==
    << ToLower(g.Name) \o GoBaseListenerS,
       ToLower(g.Name) \o GoListenerS,
       ToLower(g.Name) \o GoParserS >>

\* func (g *Grammar) GeneratedFilenames() []string, case "PARSER"
ParserFiles(g) ==
    << ToLower(g.Name) \o GoBaseListenerS,
       ToLower(g.Name) \o GoListenerS,
       ToLower(TrimSuffix(g.Name, ParserS)) \o GoParserS >>

\* func (g *Grammar) GeneratedFilenames() []string, case "COMBINED"
CombinedFiles(g) ==
    << ToLower(g.Name) \o GoBaseListenerS,
       ToLower(g.Name) \o GoListenerS,
       ToLower(g.Name) \o GoParserS,
       ToLower(g.Name) \o GoLexerS >>

\* func (g *Grammar) GeneratedFilenames() []string
GrammarGeneratedFilenames(g) ==
    CASE g.Type = "LEXER"    -> Files(LexerFiles(g))
      [] g.Type = "PARSER"   -> Files(ParserFiles(g))
      [] g.Type = "COMBINED" -> Files(CombinedFiles(g))
      [] OTHER               -> Panic("unknown grammar type")

\* func (p *Project) GeneratedFilenames() []string: the loop over p.Grammars,
\* files accumulated so far in acc; a panic of the callee ends the loop
RECURSIVE GeneratedFilenamesFrom(_, _, _)
GeneratedFilenamesFrom(G, i, acc) ==
    IF i > Len(G) THEN Files(acc)
    ELSE LET r == GrammarGeneratedFilenames(G[i])
         IN  IF r.kind = "panic" THEN r
             ELSE GeneratedFilenamesFrom(G, i + 1, acc \o r.files)
GeneratedFilenames(G) == GeneratedFilenamesFrom(G, 1, <<>>)

(***************************************************************************)
(* The Projects the methods are called on                                  *)
(***************************************************************************)
MaxGrammars == 2

FooS == <<"F","o","o">>
BarS == <<"B","a","r">>
\* grammar names: plain, with each suffix, the bare suffixes, and a name whose
\* suffix differs in case only (TrimSuffix is case sensitive)
NameSet == { FooS, FooS \o ParserS, FooS \o LexerS,
             BarS \o ParserS, BarS \o LexerS,
             ParserS, LexerS,
             <<"f","o","o","p","a","r","s","e","r">> }

SomeFilename == <<"Foo", ".g4">>
GrammarSet == [Name : NameSet, Type : Types, Filename : {SomeFilename}]

RECURSIVE SeqsUpTo(_, _)
SeqsUpTo(S, n) ==
    IF n = 0 THEN { <<>> }
    ELSE LET shorter == SeqsUpTo(S, n - 1)
         IN  shorter \cup { Append(s, x) : s \in shorter, x \in S }

\* a method call: the result is recorded; a panic leaves the method with no
\* value returned, and nothing in the package recovers it
Called(name, r) ==
    /\ ~panicked
    /\ call' = name
    /\ ret' = r
    /\ panicked' = (r.kind = "panic")
    /\ UNCHANGED Grammars

CallParserName         == Called("ParserName", ParserName(Grammars))
CallLexerName          == Called("LexerName", LexerName(Grammars))
CallListenerName       == Called("ListenerName", ListenerName(Grammars))
CallGeneratedFilenames == Called("GeneratedFilenames", GeneratedFilenames(Grammars))

(***************************************************************************)
(* ParseG4                                                                 *)
(***************************************************************************)
NoGrammar == [Name |-> <<>>, Filename |-> <<>>, Type |-> ""]

\* (*Grammar, error): err is "" for nil, else which error it is
G4Ok(g)    == [g |-> g, err |-> ""]
G4Err(e)   == [g |-> NoGrammar, err |-> e]
G4None     == [g |-> NoGrammar, err |-> "none"]

\* the if / else if chain on strings.HasPrefix: "" when no keyword starts the line
HeaderType(line) ==
    IF HasPrefix(line, KwGrammar) THEN "COMBINED"
    ELSE IF HasPrefix(line, KwLexer) THEN "LEXER"
    ELSE IF HasPrefix(line, KwParser) THEN "PARSER"
    ELSE ""

\* if semi := strings.Index(line, ";"); semi >= 0 { line = line[:semi] }
CutAtSemi(line) ==
    LET semi == Index(line, ";")
    IN  IF semi >= 0 THEN SubSeq(line, 1, semi) ELSE line

\* the header's body taking the token after the keyword for the name
HeaderResultSecondToken(line, t, path) ==
    LET parts == Fields(CutAtSemi(line))
    IN  IF Len(parts) < 2
        THEN G4Err("failed to parse grammar name")
        ELSE G4Ok([Name |-> parts[2], Filename |-> path, Type |-> t])

\* the body of "if t != \"\"": what ParseG4 returns for a header line of type t
HeaderResult(line, t, path) ==
    LET parts == Fields(CutAtSemi(line))
    IN  IF Len(parts) < 2
        THEN G4Err("failed to parse grammar name")
        ELSE G4Ok([Name |-> parts[Len(parts)], Filename |-> path, Type |-> t])

\* a file as os.Open and bufio.Scanner see it: whether it opens, the lines the
\* scanner delivers, and whether the scanner then stops on a read error
\* (scanner.Err() # nil: a directory, an I/O error, a line too long) or at EOF
File(canOpen, lines, readErr) ==
    [canOpen |-> canOpen, lines |-> lines, readErr |-> readErr]

\* the for scanner.Scan() loop from line i on, and the two returns after it
RECURSIVE ScanFrom(_, _, _)
ScanFrom(f, i, path) ==
    IF i > Len(f.lines)
    THEN IF f.readErr THEN G4Err("read") ELSE G4Err("failed to find fields of interest in grammar")
    ELSE LET line == TrimSpace(f.lines[i])
             t    == HeaderType(line)
         IN  IF t # "" THEN HeaderResult(line, t, path)
             ELSE ScanFrom(f, i + 1, path)

\* func ParseG4(path string) (*Grammar, error), on the file f found at path
ParseG4(f, path) ==
    IF ~f.canOpen THEN G4Err("open") ELSE ScanFrom(f, 1, path)

\* the lines grammar files are made of
LnLexer    == <<"l","e","x","e","r"," ","g","r","a","m","m","a","r"," ","F","o","o","L","e","x","e","r",";">>
LnCombined == <<"g","r","a","m","m","a","r"," ","F","o","o",";">>
LnParser   == <<" "," ","p","a","r","s","e","r"," ","g","r","a","m","m","a","r"," ","F","o","o","P","a","r","s","e","r"," ",";"," ","x">>
LnComment  == <<"/","/"," ","g","r","a","m","m","a","r"," ","X",";">>
LnBlank    == <<" ">>
LnOneToken == <<"g","r","a","m","m","a","r",";">>
LnGlued    == <<"l","e","x","e","r","F","o","o">>
LnRule     == <<"p","a","r","s","e","r","R","u","l","e"," ",":"," ","x"," ",";">>
LineSet == { LnLexer, LnCombined, LnParser, LnComment, LnBlank,
             LnOneToken, LnGlued, LnRule }

MaxLines == 3
G4Path == <<"d", "/", "Foo", ".g4">>
G4Files ==
    { File(FALSE, <<>>, FALSE) }
    \cup { File(TRUE, ls, e) : ls \in SeqsUpTo(LineSet, MaxLines), e \in BOOLEAN }

\* f, err := os.Open(path), failing: return nil, err
G4OpenFails ==
    /\ g4Pc = "start"
    /\ ~g4File.canOpen
    /\ g4Ret' = G4Err("open")
    /\ g4Pc' = "done"
    /\ UNCHANGED <<g4File, g4Pos, g4Handles>>

\* f, err := os.Open(path), succeeding; scanner := bufio.NewScanner(f)
G4Open ==
    /\ g4Pc = "start"
    /\ g4File.canOpen
    /\ g4Handles' = g4Handles + 1
    /\ g4Pc' = "scan"
    /\ UNCHANGED <<g4File, g4Pos, g4Ret>>

\* one pass of the loop over a line no keyword starts
G4SkipLine ==
    /\ g4Pc = "scan"
    /\ g4Pos < Len(g4File.lines)
    /\ HeaderType(TrimSpace(g4File.lines[g4Pos + 1])) = ""
    /\ g4Pos' = g4Pos + 1
    /\ UNCHANGED <<g4File, g4Pc, g4Handles, g4Ret>>

\* one pass of the loop over a line a keyword starts: both branches return.
\* No statement of ParseG4 closes f.
G4HeaderLine ==
    /\ g4Pc = "scan"
    /\ g4Pos < Len(g4File.lines)
    /\ LET line == TrimSpace(g4File.lines[g4Pos + 1])
           t    == HeaderType(line)
       IN  /\ t # ""
           /\ g4Ret' = HeaderResult(line, t, G4Path)
    /\ g4Pos' = g4Pos + 1
    /\ g4Pc' = "done"
    /\ UNCHANGED <<g4File, g4Handles>>

\* scanner.Scan() false with scanner.Err() # nil: return nil, err
G4ReadError ==
    /\ g4Pc = "scan"
    /\ g4Pos = Len(g4File.lines)
    /\ g4File.readErr
    /\ g4Ret' = G4Err("read")
    /\ g4Pc' = "done"
    /\ UNCHANGED <<g4File, g4Pos, g4Handles>>

\* scanner.Scan() false at end of file: return nil, errors.New(...)
G4NotFound ==
    /\ g4Pc = "scan"
    /\ g4Pos = Len(g4File.lines)
    /\ ~g4File.readErr
    /\ g4Ret' = G4Err("failed to find fields of interest in grammar")
    /\ g4Pc' = "done"
    /\ UNCHANGED <<g4File, g4Pos, g4Handles>>

(***************************************************************************)
(* The file system ParsePom reads.  A path is a sequence of path tokens;   *)
(* the extension ".g4" is one token, so that strings.Replace on the path   *)
(* is computed token by token.                                             *)
(***************************************************************************)
PomDir  == <<"g", "/", "d">>                 \* filepath.Dir(path)
PomPath == PomDir \o <<"/", "pom.xml">>      \* the descriptor

\* filepath.Join(dir, file): an empty element is dropped, so Join(dir, "") is dir
Join(dir, file) == IF file = <<>> THEN dir ELSE dir \o <<"/">> \o file

\* strings.Replace(file, ".g4", ".GoTarget.g4", -1): every occurrence
RECURSIVE ReplaceG4(_)
ReplaceG4(file) ==
    IF file = <<>> THEN <<>>
    ELSE IF Head(file) = ".g4"
         THEN <<".GoTarget", ".g4">> \o ReplaceG4(Tail(file))
         ELSE <<Head(file)>> \o ReplaceG4(Tail(file))

\* strings.Count(dir, "/")
RECURSIVE CountSlash(_)
CountSlash(dir) ==
    IF dir = <<>> THEN 0
    ELSE (IF Head(dir) = "/" THEN 1 ELSE 0) + CountSlash(Tail(dir))

\* strings.Repeat("../", n)
RECURSIVE RepeatUp(_)
RepeatUp(n) == IF n = 0 THEN <<>> ELSE <<"../">> \o RepeatUp(n - 1)

\* what the descriptor's directory holds
\*   A.g4            a parser grammar, with a Go variant A.GoTarget.g4 (combined)
\*   B.g4            a lexer grammar, no variant
\*   C.g4            a file with no header line
\*   V.GoTarget.g4   a variant whose plain file V.g4 does not exist
\*   U.g4            a file os.Stat and os.Open are denied access to
\*   the directory itself opens, and fails on the first read
FileA  == PomDir \o <<"/", "A", ".g4">>
FileAG == PomDir \o <<"/", "A", ".GoTarget", ".g4">>
FileB  == PomDir \o <<"/", "B", ".g4">>
FileC  == PomDir \o <<"/", "C", ".g4">>
FileVG == PomDir \o <<"/", "V", ".GoTarget", ".g4">>
FileU  == PomDir \o <<"/", "U", ".g4">>
OnDisk == { FileA, FileAG, FileB, FileC, FileVG, PomDir }

MissingFile == File(FALSE, <<>>, FALSE)
Disk(path) ==
    CASE path = FileA  -> File(TRUE, <<LnComment, LnParser>>, FALSE)
      [] path = FileAG -> File(TRUE, <<LnCombined>>, FALSE)
      [] path = FileB  -> File(TRUE, <<LnBlank, LnLexer>>, FALSE)
      [] path = FileC  -> File(TRUE, <<LnComment>>, FALSE)
      [] path = FileVG -> File(TRUE, <<LnParser>>, FALSE)
      [] path = PomDir -> File(TRUE, <<>>, TRUE)
      [] OTHER         -> MissingFile

\* the error of os.Stat(path), "" for nil
Stat(path) ==
    IF path \in OnDisk THEN ""
    ELSE IF path = FileU THEN "permission denied"
    ELSE "no such file or directory"

\* os.IsNotExist(err)
IsNotExist(err) == err = "no such file or directory"

\* func fileExists(path string) bool
fileExists(path) == ~IsNotExist(Stat(path))

\* contains finding nothing
containsNothing(haystack, needle) == FALSE

\* func contains(haystack []string, needle string) bool
contains(haystack, needle) ==
    \E i \in 1..Len(haystack) : haystack[i] = needle

\* filepath.Glob(pattern): the matches, or ErrBadPattern for a malformed pattern
BadPatternText == <<"[">>
Glob(pattern) ==
    IF \E i \in 1..Len(pattern) : pattern[i] = "["
    THEN [err |-> "syntax error in pattern", matches |-> <<>>]
    ELSE IF pattern = PomDir \o <<"/", "examples", "/", "*">>
    THEN [err |-> "", matches |-> << PomDir \o <<"/", "examples", "/", "a.txt">>,
                                     PomDir \o <<"/", "examples", "/", "b.txt">> >>]
    ELSE [err |-> "", matches |-> <<>>]

(***************************************************************************)
(* The descriptor as the xml.Decoder delivers it                           *)
(***************************************************************************)
Recognized == { "artifactId", "grammars", "include", "grammarName",
                "entryPoint", "exampleFiles", "caseInsensitiveType" }

\* the content of an element: character data and nested elements, in order
CharData(text)     == [item |-> "chardata", name |-> "", text |-> text]
Nested(name, text) == [item |-> "element", name |-> name, text |-> text]

\* DecodeElement collecting the text of nested elements too
RECURSIVE DecodeElementDeep(_)
DecodeElementDeep(body) ==
    IF body = <<>> THEN <<>> ELSE Head(body).text \o DecodeElementDeep(Tail(body))

\* decoder.DecodeElement(&s, &se) for a string s: the character data directly
\* inside the element, concatenated; nested elements are skipped unread
RECURSIVE DecodeElement(_)
DecodeElement(body) ==
    IF body = <<>> THEN <<>>
    ELSE (IF Head(body).item = "chardata" THEN Head(body).text ELSE <<>>)
         \o DecodeElement(Tail(body))

(***************************************************************************)
(* ParsePom                                                                *)
(***************************************************************************)
\* p := &Project{FileName: path}
NewProject ==
    [ FileName |-> PomPath, LongName |-> <<>>, Includes |-> <<>>, Grammars |-> <<>>,
      EntryPoint |-> <<>>, ExampleRoot |-> <<>>, Examples |-> <<>>,
      CaseInsensitiveType |-> <<>>, FoundAntlr4MavenPlugin |-> FALSE ]

PluginText == <<"antlr4-maven-plugin">>

\* what one pass of the switch did: the project after it, the error it returns
\* with ("" when the loop goes on), the line it logged ("" for none), the
\* number of files it opened, and the branch it took
Pass(proj, err, line, opened, did) ==
    [p |-> proj, err |-> err, line |-> line, opened |-> opened, did |-> did]

\* file = filepath.Join(dir, file), then the "upgrade" to the Go variant
IncludeFile(text) ==
    LET file       == Join(PomDir, text)
        betterfile == ReplaceG4(file)
    IN  IF fileExists(betterfile) THEN betterfile ELSE file

\* case "artifactId"
caseArtifactId(proj, name) ==
    Pass(IF name = PluginText THEN [proj EXCEPT !.FoundAntlr4MavenPlugin = TRUE] ELSE proj,
         "", "", 0, "set")

\* case "grammars", "include" without the else after the missing-grammar log
caseIncludeKeepsMissing(proj, text) ==
    LET file     == IncludeFile(text)
        withFile == [proj EXCEPT !.Includes = Append(@, file)]
    IN  IF contains(proj.Includes, file)
        THEN Pass(proj, "", "", 0, "duplicate")
        ELSE IF ~fileExists(file)
        THEN Pass(withFile, "", "missing grammar", 0, "missing")
        ELSE LET r      == ParseG4(Disk(file), file)
                 opened == IF Disk(file).canOpen THEN 1 ELSE 0
             IN  IF r.err # ""
                 THEN Pass(withFile, "", "failed to parse grammar", opened, "failed")
                 ELSE Pass([withFile EXCEPT !.Grammars = Append(@, r.g)], "", "", opened, "added")

\* case "grammars", "include" appending to Includes only what ParseG4 accepts
caseIncludeDropsFailed(proj, text) ==
    LET file == IncludeFile(text)
    IN  IF ~fileExists(file)
        THEN Pass(proj, "", "missing grammar", 0, "missing")
        ELSE IF contains(proj.Includes, file)
        THEN Pass(proj, "", "", 0, "duplicate")
        ELSE LET r      == ParseG4(Disk(file), file)
                 opened == IF Disk(file).canOpen THEN 1 ELSE 0
             IN  IF r.err # ""
                 THEN Pass(proj, "", "failed to parse grammar", opened, "failed")
                 ELSE Pass([proj EXCEPT !.Includes = Append(@, file),
                                        !.Grammars = Append(@, r.g)], "", "", opened, "added")

\* case "grammars", "include"
caseInclude(proj, text) ==
    LET file == IncludeFile(text)
    IN  IF ~fileExists(file)
        THEN Pass(proj, "", "missing grammar", 0, "missing")
        ELSE IF contains(proj.Includes, file)
        THEN Pass(proj, "", "", 0, "duplicate")
        ELSE LET withFile == [proj EXCEPT !.Includes = Append(@, file)]
                 r        == ParseG4(Disk(file), file)
                 opened   == IF Disk(file).canOpen THEN 1 ELSE 0
             IN  IF r.err # ""
                 THEN Pass(withFile, "", "failed to parse grammar", opened, "failed")
                 ELSE Pass([withFile EXCEPT !.Grammars = Append(@, r.g)], "", "", opened, "added")

\* case "grammarName"
caseGrammarName(proj, longName) ==
    Pass([proj EXCEPT !.LongName = longName], "", "", 0, "set")

\* case "entryPoint"
caseEntryPoint(proj, entryPoint) ==
    Pass([proj EXCEPT !.EntryPoint = entryPoint], "", "", 0, "set")

\* case "exampleFiles"
caseExampleFiles(proj, file) ==
    LET g == Glob(Join(Join(PomDir, file), <<"*">>))
    IN  IF g.err # "" THEN Pass(proj, g.err, "", 0, "error")
        ELSE Pass([proj EXCEPT !.Examples = g.matches,
                               !.ExampleRoot = RepeatUp(CountSlash(PomDir))],
                  "", "", 0, "set")

\* case "caseInsensitiveType"
caseCaseInsensitiveType(proj, t) ==
    Pass([proj EXCEPT !.CaseInsensitiveType = t], "", "", 0, "set")

\* switch se.Name.Local, after DecodeElement has read the element's body
StartElement(proj, name, body) ==
    LET text == DecodeElement(body)
    IN  CASE name = "artifactId"               -> caseArtifactId(proj, text)
          [] name \in {"grammars", "include"}  -> caseInclude(proj, text)
          [] name = "grammarName"              -> caseGrammarName(proj, text)
          [] name = "entryPoint"               -> caseEntryPoint(proj, text)
          [] name = "exampleFiles"             -> caseExampleFiles(proj, text)
          [] name = "caseInsensitiveType"      -> caseCaseInsensitiveType(proj, text)
          [] OTHER                             -> Pass(proj, "", "", 0, "ignored")

\* ---- the descriptors read ----
\* tokens the decoder delivers before the document ends
MaxTokens == 3
\* nesting of unrecognized elements
MaxDepth == 1

IncludeTexts == { <<"A", ".g4">>, <<"A", ".GoTarget", ".g4">>, <<"B", ".g4">>,
                  <<"C", ".g4">>, <<"V", ".g4">>, <<"M", ".g4">>, <<"U", ".g4">>, <<>> }
TextsOf(name) ==
    CASE name \in {"grammars", "include"} -> IncludeTexts
      [] name = "artifactId"              -> { PluginText, <<"maven-compiler-plugin">> }
      [] name = "grammarName"             -> { <<"Foo">>, <<"Bar">> }
      [] name = "entryPoint"              -> { <<"prog">> }
      [] name = "exampleFiles"            -> { <<"examples">>, BadPatternText }
      [] name = "caseInsensitiveType"     -> { <<"UPPER">> }
      [] OTHER                            -> { <<>> }

\* elements found nested inside a recognized element
NestedSet == { Nested("include", <<"B", ".g4">>) }

\* bodies: character data alone, or character data followed by a nested element
BodiesOf(name) ==
    { <<CharData(t)>> : t \in TextsOf(name) }
    \cup { <<CharData(t), k>> : t \in TextsOf(name), k \in NestedSet }

Unrecognized == { "includes" }

\* the token handled last: its kind, name and content, the depth it was found
\* at, and the branch of the switch it took
NoToken == [tok |-> "none", name |-> "", body |-> <<>>, depth |-> 0, did |-> ""]
Token(tok, name, body, did) ==
    [tok |-> tok, name |-> name, body |-> body, depth |-> depth, did |-> did]

PomNone == [p |-> NewProject, nil |-> TRUE, err |-> "none"]

\* file, err := os.Open(path), failing: return nil, err
PomOpenFails ==
    /\ pc = "start"
    /\ pomRet' = [p |-> NewProject, nil |-> TRUE, err |-> "open"]
    /\ pc' = "done"
    /\ UNCHANGED <<p, depth, nread, last, pomHandle, grammarHandles, logged>>
    /\ UNCHANGED <<nameVars, g4Vars>>

\* file, err := os.Open(path), succeeding; decoder := xml.NewDecoder(file)
PomOpen ==
    /\ pc = "start"
    /\ pomHandle' = pomHandle + 1
    /\ pc' = "loop"
    /\ UNCHANGED <<p, depth, nread, last, grammarHandles, logged, pomRet>>
    /\ UNCHANGED <<nameVars, g4Vars>>

\* t == nil (end of input, or an error of the decoder, which is dropped): break,
\* then return p, nil.  No statement of ParsePom closes file.
TokenNil ==
    /\ pc = "loop"
    /\ pomRet' = [p |-> p, nil |-> FALSE, err |-> ""]
    /\ pc' = "done"
    /\ UNCHANGED <<p, depth, nread, last, pomHandle, grammarHandles, logged>>
    /\ UNCHANGED <<nameVars, g4Vars>>

\* a token that is no StartElement (character data, a comment, ...): no case
TokenOther ==
    /\ pc = "loop"
    /\ nread < MaxTokens
    /\ nread' = nread + 1
    /\ last' = Token("other", "", <<>>, "ignored")
    /\ UNCHANGED <<p, pc, depth, pomHandle, grammarHandles, logged, pomRet>>
    /\ UNCHANGED <<nameVars, g4Vars>>

\* the EndElement of an element the loop entered: no case
TokenEndElement ==
    /\ pc = "loop"
    /\ nread < MaxTokens
    /\ depth > 0
    /\ nread' = nread + 1
    /\ depth' = depth - 1
    /\ last' = Token("end", "", <<>>, "ignored")
    /\ UNCHANGED <<p, pc, pomHandle, grammarHandles, logged, pomRet>>
    /\ UNCHANGED <<nameVars, g4Vars>>

\* a StartElement no case names: the loop goes on with the element's content
StartUnrecognized ==
    /\ pc = "loop"
    /\ nread < MaxTokens
    /\ depth < MaxDepth
    /\ \E name \in Unrecognized :
          /\ p' = StartElement(p, name, <<>>).p
          /\ last' = Token("start", name, <<>>, StartElement(p, name, <<>>).did)
    /\ nread' = nread + 1
    /\ depth' = depth + 1
    /\ UNCHANGED <<pc, pomHandle, grammarHandles, logged, pomRet>>
    /\ UNCHANGED <<nameVars, g4Vars>>

\* a StartElement one of the cases names, whose body DecodeElement reads
StartRecognized(name) ==
    /\ pc = "loop"
    /\ nread < MaxTokens
    /\ \E body \in BodiesOf(name) :
          LET r == StartElement(p, name, body)
          IN  /\ last' = Token("start", name, body, r.did)
              /\ grammarHandles' = grammarHandles + r.opened
              /\ logged' = IF r.line = "" THEN logged ELSE Append(logged, r.line)
              /\ IF r.err # ""
                 THEN /\ pomRet' = [p |-> NewProject, nil |-> TRUE, err |-> r.err]
                      /\ pc' = "done"
                      /\ UNCHANGED p
                 ELSE /\ p' = r.p
                      /\ UNCHANGED <<pc, pomRet>>
    /\ nread' = nread + 1
    /\ UNCHANGED <<depth, pomHandle>>
    /\ UNCHANGED <<nameVars, g4Vars>>

StartArtifactId          == StartRecognized("artifactId")
StartGrammars            == StartRecognized("grammars")
StartInclude             == StartRecognized("include")
StartGrammarName         == StartRecognized("grammarName")
StartEntryPoint          == StartRecognized("entryPoint")
StartExampleFiles        == StartRecognized("exampleFiles")
StartCaseInsensitiveType == StartRecognized("caseInsensitiveType")

\* DecodeElement failing inside a recognized element: return nil, err
DecodeFails ==
    /\ pc = "loop"
    /\ nread < MaxTokens
    /\ \E name \in Recognized : last' = Token("undecodable", name, <<>>, "error")
    /\ pomRet' = [p |-> NewProject, nil |-> TRUE, err |-> "decode"]
    /\ pc' = "done"
    /\ nread' = nread + 1
    /\ UNCHANGED <<p, depth, pomHandle, grammarHandles, logged>>
    /\ UNCHANGED <<nameVars, g4Vars>>

(***************************************************************************)
(* Specifications                                                          *)
(***************************************************************************)
IdleNames ==
    /\ Grammars = <<>> /\ call = "none" /\ ret = NoCall /\ panicked = FALSE
IdleG4 ==
    /\ g4File = MissingFile /\ g4Pc = "idle" /\ g4Pos = 0 /\ g4Handles = 0
    /\ g4Ret = G4None
IdlePom ==
    /\ p = NewProject /\ pc = "idle" /\ depth = 0 /\ nread = 0 /\ last = NoToken
    /\ pomHandle = 0 /\ grammarHandles = 0 /\ logged = <<>> /\ pomRet = PomNone

\* ParsePom on a descriptor
Init ==
    /\ p = NewProject /\ pc = "start" /\ depth = 0 /\ nread = 0 /\ last = NoToken
    /\ pomHandle = 0 /\ grammarHandles = 0 /\ logged = <<>> /\ pomRet = PomNone
    /\ IdleNames /\ IdleG4

Next ==
    \/ PomOpenFails
    \/ PomOpen
    \/ TokenNil
    \/ TokenOther
    \/ TokenEndElement
    \/ StartUnrecognized
    \/ StartArtifactId
    \/ StartGrammars
    \/ StartInclude
    \/ StartGrammarName
    \/ StartEntryPoint
    \/ StartExampleFiles
    \/ StartCaseInsensitiveType
    \/ DecodeFails

Spec == Init /\ [][Next]_vars

\* ParseG4 on a grammar file
InitG4 ==
    /\ g4File \in G4Files /\ g4Pc = "start" /\ g4Pos = 0 /\ g4Handles = 0
    /\ g4Ret = G4None
    /\ IdleNames /\ IdlePom

NextG4 ==
    \/ (G4OpenFails  /\ UNCHANGED <<nameVars, pomVars>>)
    \/ (G4Open       /\ UNCHANGED <<nameVars, pomVars>>)
    \/ (G4SkipLine   /\ UNCHANGED <<nameVars, pomVars>>)
    \/ (G4HeaderLine /\ UNCHANGED <<nameVars, pomVars>>)
    \/ (G4ReadError  /\ UNCHANGED <<nameVars, pomVars>>)
    \/ (G4NotFound   /\ UNCHANGED <<nameVars, pomVars>>)

SpecG4 == InitG4 /\ [][NextG4]_vars

\* the Project methods on a Project
InitNames ==
    /\ Grammars \in SeqsUpTo(GrammarSet, MaxGrammars)
    /\ call = "none" /\ ret = NoCall /\ panicked = FALSE
    /\ IdleG4 /\ IdlePom

NextNames ==
    \/ (CallParserName         /\ UNCHANGED <<g4Vars, pomVars>>)
    \/ (CallLexerName          /\ UNCHANGED <<g4Vars, pomVars>>)
    \/ (CallListenerName       /\ UNCHANGED <<g4Vars, pomVars>>)
    \/ (CallGeneratedFilenames /\ UNCHANGED <<g4Vars, pomVars>>)

SpecNames == InitNames /\ [][NextNames]_vars

(***************************************************************************)
(* Properties of the name derivation (checked under SpecNames)             *)
(***************************************************************************)
Lower(name)      == ToLower(name)
Stripped(name, suffix) ==
    IF Len(name) >= Len(suffix)
       /\ \A i \in 1..Len(suffix) : name[Len(name) - Len(suffix) + i] = suffix[i]
    THEN SubSeq(name, 1, Len(name) - Len(suffix))
    ELSE name
Us(word) == <<"_">> \o word

\* the per-grammar list as the specification words it: no extension, and the
\* LEXER name built on the whole lower-cased Name
WordedList(g) ==
    CASE g.Type = "LEXER" ->
           << Lower(g.Name) \o Us(KwLexer) >>
      [] g.Type = "PARSER" ->
           << Lower(g.Name) \o Us(<<"b","a","s","e">>) \o Us(<<"l","i","s","t","e","n","e","r">>),
              Lower(g.Name) \o Us(<<"l","i","s","t","e","n","e","r">>),
              Lower(Stripped(g.Name, ParserS)) \o Us(KwParser) >>
      [] g.Type = "COMBINED" ->
           << Lower(g.Name) \o Us(<<"b","a","s","e">>) \o Us(<<"l","i","s","t","e","n","e","r">>),
              Lower(g.Name) \o Us(<<"l","i","s","t","e","n","e","r">>),
              Lower(g.Name) \o Us(KwParser),
              Lower(g.Name) \o Us(KwLexer) >>

\* the per-grammar list of file names: each name ends in ".go", and the LEXER
\* name is built on the Name with a trailing "Lexer" removed
FileList(g) ==
    LET go(names) == [i \in 1..Len(names) |-> names[i] \o DotGo]
    IN  IF g.Type = "LEXER"
        THEN << Lower(Stripped(g.Name, LexerS)) \o Us(KwLexer) \o DotGo >>
        ELSE go(WordedList(g))

RECURSIVE Concatenated(_, _)
Concatenated(List(_), G) ==
    IF G = <<>> THEN <<>> ELSE List(Head(G)) \o Concatenated(List, Tail(G))

\* C1, as stated: generatedFilenames() is the concatenation, in Grammars order,
\* of [base_lexer] / [base_base_listener, base_listener, parserBase_parser] /
\* [base_base_listener, base_listener, base_parser, base_lexer], base the
\* lower-cased Name, with no other suffix or stripping applied.
C1_AsStated ==
    call = "GeneratedFilenames" =>
        /\ ret.kind = "value"
        /\ ret.files = Concatenated(WordedList, Grammars)

\* C1, amended: generatedFilenames() is the concatenation, in Grammars order, of
\* the per-grammar lists, where every name carries the extension ".go" and the
\* LEXER name is lower-cased (Name with a trailing "Lexer" removed) + "_lexer.go";
\* a single COMBINED grammar Foo yields foo_base_listener.go, foo_listener.go,
\* foo_parser.go, foo_lexer.go in that order.
C1_GeneratedFilenames ==
    call = "GeneratedFilenames" =>
        /\ ret.kind = "value"
        /\ ret.files = Concatenated(FileList, Grammars)

\* a LEXER grammar FooLexer followed by a COMBINED grammar Foo: five names
C1_Witness ==
    /\ call = "GeneratedFilenames"
    /\ Len(Grammars) = 2
    /\ Grammars[1].Type = "LEXER" /\ Grammars[1].Name = FooS \o LexerS
    /\ Grammars[2].Type = "COMBINED" /\ Grammars[2].Name = FooS
    /\ ret.files = << <<"f","o","o">> \o GoLexerS,
                      <<"f","o","o">> \o GoBaseListenerS,
                      <<"f","o","o">> \o GoListenerS,
                      <<"f","o","o">> \o GoParserS,
                      <<"f","o","o">> \o GoLexerS >>

\* the split form of base name N: [PARSER N+"Parser", LEXER N+"Lexer"]
IsSplitOf(G, N) ==
    /\ Len(G) = 2
    /\ G[1].Type = "PARSER" /\ G[1].Name = N \o ParserS
    /\ G[2].Type = "LEXER"  /\ G[2].Name = N \o LexerS
BaseNames == { FooS, BarS, <<>> }
CombinedOf(N) == << [Name |-> N, Type |-> "COMBINED", Filename |-> SomeFilename] >>

\* C2, as stated: the split form [PARSER N+"Parser", LEXER N+"Lexer"] gets the
\* same four names from generatedFilenames() as the single COMBINED grammar N.
C2_AsStated ==
    \A N \in BaseNames :
        (call = "GeneratedFilenames" /\ IsSplitOf(Grammars, N)) =>
            ret.files = GeneratedFilenames(CombinedOf(N)).files

\* C2, amended: the split form gets four names, of which the parser and the
\* lexer file name (third and fourth) are those of the COMBINED grammar N; the
\* two listener file names are built on the parser grammar's whole lower-cased
\* Name (N+"Parser"), not on N.
C2_SplitAndCombined ==
    \A N \in BaseNames :
        (call = "GeneratedFilenames" /\ IsSplitOf(Grammars, N)) =>
            LET combined == GeneratedFilenames(CombinedOf(N)).files
            IN  /\ Len(ret.files) = 4 /\ Len(combined) = 4
                /\ ret.files[3] = combined[3]
                /\ ret.files[4] = combined[4]
                /\ ret.files[1] = Lower(N \o ParserS) \o GoBaseListenerS
                /\ ret.files[2] = Lower(N \o ParserS) \o GoListenerS

C2_Witness ==
    /\ call = "GeneratedFilenames"
    /\ IsSplitOf(Grammars, FooS)
    /\ ret.files[3] = <<"f","o","o">> \o GoParserS
    /\ ret.files[1] # GeneratedFilenames(CombinedOf(FooS)).files[1]

\* the first grammar of type t is at index i
FirstAt(G, t, i) ==
    /\ i \in 1..Len(G)
    /\ G[i].Type = t
    /\ \A j \in 1..Len(G) : G[j].Type = t => j >= i

\* the base name as the claim defines it, for the pair (type, suffix)
IsBaseName(G, t, suffix, name) ==
    IF HasType(G, t)
    THEN \E i \in 1..Len(G) : FirstAt(G, t, i) /\ name = Stripped(G[i].Name, suffix)
    ELSE \E i \in 1..Len(G) : FirstAt(G, "COMBINED", i) /\ name = G[i].Name

\* C3: parserName() is parserBaseName() + "Parser", parserBaseName() being the
\* first PARSER grammar's Name with a trailing "Parser" removed, else the first
\* COMBINED grammar's Name, a PARSER grammar taking precedence wherever it
\* stands in Grammars; lexerName() likewise with "Lexer" and LEXER.
C3_ParserLexerName ==
    /\ (call = "ParserName" /\ (HasType(Grammars, "PARSER") \/ HasType(Grammars, "COMBINED"))) =>
          /\ ret.kind = "value"
          /\ \E base \in { SubSeq(ret.name, 1, n) : n \in 0..Len(ret.name) } :
                /\ ret.name = base \o ParserS
                /\ IsBaseName(Grammars, "PARSER", ParserS, base)
    /\ (call = "LexerName" /\ (HasType(Grammars, "LEXER") \/ HasType(Grammars, "COMBINED"))) =>
          /\ ret.kind = "value"
          /\ \E base \in { SubSeq(ret.name, 1, n) : n \in 0..Len(ret.name) } :
                /\ ret.name = base \o LexerS
                /\ IsBaseName(Grammars, "LEXER", LexerS, base)

\* a COMBINED grammar Foo before a PARSER grammar BarParser: the PARSER one names
C3_Witness ==
    /\ call = "ParserName"
    /\ Len(Grammars) = 2
    /\ Grammars[1].Type = "COMBINED" /\ Grammars[1].Name = FooS
    /\ Grammars[2].Type = "PARSER" /\ Grammars[2].Name = BarS \o ParserS
    /\ ret.name = BarS \o ParserS

\* the call made last needed a grammar type the Project lacks
LacksNeeded ==
    \/ /\ call \in {"ListenerName", "ParserName"}
       /\ ~HasType(Grammars, "PARSER") /\ ~HasType(Grammars, "COMBINED")
    \/ /\ call = "LexerName"
       /\ ~HasType(Grammars, "LEXER") /\ ~HasType(Grammars, "COMBINED")

\* C4, as stated: a name-derivation call that needs an absent grammar type
\* returns a typed NoParserError / NoLexerError to its caller; nothing is
\* aborted.
C4_AsStated ==
    LacksNeeded => (ret.kind = "error" /\ ~panicked)

\* C4, amended: a name-derivation call that needs an absent grammar type panics
\* with the message "... does not contain a parser" (listenerName, parserName)
\* or "... does not contain a lexer" (lexerName): no value and no error is
\* returned, nothing in the package recovers the panic, and no call modifies
\* the Project.
C4_MissingGrammarPanics ==
    /\ [](LacksNeeded =>
            /\ ret.kind = "panic"
            /\ panicked
            /\ ret.msg = (IF call = "LexerName" THEN "does not contain a lexer"
                                                ELSE "does not contain a parser"))
    /\ []((call # "none" /\ ~LacksNeeded) => (ret.kind = "value" /\ ~panicked))
    /\ [][Grammars' = Grammars]_vars

\* listenerName() on a Project holding one LEXER grammar
C4_Witness ==
    /\ call = "ListenerName"
    /\ Len(Grammars) = 1 /\ Grammars[1].Type = "LEXER"
    /\ ret.kind = "panic" /\ panicked

(***************************************************************************)
(* Properties of ParseG4 (checked under SpecG4)                            *)
(***************************************************************************)
\* the whitespace-trimmed text of line i of the file
Trimmed(i) == TrimSpace(g4File.lines[i])

\* the keyword that starts the text, "" for none
KeywordOf(text) ==
    IF \E k \in {KwGrammar, KwLexer, KwParser} : HasPrefix(text, k)
    THEN CHOOSE k \in {KwGrammar, KwLexer, KwParser} : HasPrefix(text, k)
    ELSE <<>>
TypeOfKeyword(k) ==
    CASE k = KwGrammar -> "COMBINED" [] k = KwLexer -> "LEXER" [] k = KwParser -> "PARSER"

\* the text up to its first ';' (all of it when it has none)
BeforeSemi(text) ==
    IF \E i \in 1..Len(text) : text[i] = ";"
    THEN SubSeq(text, 1, (CHOOSE i \in 1..Len(text) :
                             text[i] = ";" /\ \A j \in 1..(i-1) : text[j] # ";") - 1)
    ELSE text

\* the lines of the file a header keyword starts
HeaderLines == { i \in 1..Len(g4File.lines) : KeywordOf(Trimmed(i)) # <<>> }

\* C7: ParseGrammarHeader decides on the first line whose trimmed text starts
\* with "grammar" (COMBINED), "lexer" (LEXER) or "parser" (PARSER) and reads no
\* line after it: the line is cut at its first ';' and split on whitespace, Name
\* is the last token; fewer than two tokens is a ParseError even when a later
\* line is a valid header; no such line before end of file is NotFoundError.
C7_HeaderScan ==
    (g4Pc = "done" /\ g4File.canOpen) =>
        IF HeaderLines # {}
        THEN LET first  == CHOOSE i \in HeaderLines : \A j \in HeaderLines : i <= j
                 tokens == Fields(BeforeSemi(Trimmed(first)))
             IN  /\ g4Pos = first
                 /\ IF Len(tokens) < 2
                    THEN /\ g4Ret.err = "failed to parse grammar name"
                         /\ g4Ret.g = NoGrammar
                    ELSE /\ g4Ret.err = ""
                         /\ g4Ret.g.Name = tokens[Len(tokens)]
                         /\ g4Ret.g.Type = TypeOfKeyword(KeywordOf(Trimmed(first)))
                         /\ g4Ret.g.Filename = G4Path
        ELSE /\ g4Pos = Len(g4File.lines)
             /\ g4Ret.g = NoGrammar
             /\ g4Ret.err = (IF g4File.readErr THEN "read"
                             ELSE "failed to find fields of interest in grammar")

\* "lexer grammar FooLexer;" after a line that is no header, before a line that
\* is one: LEXER, FooLexer
C7_Witness ==
    /\ g4Pc = "done"
    /\ g4File.lines = <<LnComment, LnLexer>>
    /\ g4Pos = 2
    /\ g4Ret.err = ""
    /\ g4Ret.g.Type = "LEXER"
    /\ g4Ret.g.Name = FooS \o LexerS

(***************************************************************************)
(* Properties of ParsePom (checked under Spec)                             *)
(***************************************************************************)
Range(seq) == { seq[i] : i \in 1..Len(seq) }
NoDuplicates(seq) == \A i, j \in 1..Len(seq) : seq[i] = seq[j] => i = j
IsPrefix(a, b) == Len(a) <= Len(b) /\ SubSeq(b, 1, Len(a)) = a

\* a is b with some entries left out
RECURSIVE IsSubsequence(_, _)
IsSubsequence(a, b) ==
    IF a = <<>> THEN TRUE
    ELSE IF b = <<>> THEN FALSE
    ELSE IF Head(a) = Head(b) THEN IsSubsequence(Tail(a), Tail(b))
    ELSE IsSubsequence(a, Tail(b))

\* the character data directly inside an element
RECURSIVE DirectText(_)
DirectText(body) ==
    IF body = <<>> THEN <<>>
    ELSE IF Head(body).item = "chardata" THEN Head(body).text \o DirectText(Tail(body))
    ELSE DirectText(Tail(body))

\* this step handles a StartElement (of one of the names)
HandlesStart == nread' = nread + 1 /\ last'.tok = "start"
HandlesInclude == HandlesStart /\ last'.name \in {"grammars", "include"}

\* the path a reference resolves to: the Go variant when that is on the disk
ResolvedPath(text) ==
    LET literal == Join(PomDir, text)
        variant == ReplaceG4(literal)
    IN  IF ~IsNotExist(Stat(variant)) THEN variant ELSE literal

\* neither the variant nor the literal path of the reference is on the disk
NeitherExists(text) ==
    /\ IsNotExist(Stat(Join(PomDir, text)))
    /\ IsNotExist(Stat(ReplaceG4(Join(PomDir, text))))

\* C5: Includes never holds a path twice; a grammars/include reference whose
\* resolved path is already in Includes leaves Includes and Grammars as they
\* are; and Includes only grows at its end, so the order of first occurrence
\* is kept.
C5_NoDuplicateIncludes ==
    /\ [] NoDuplicates(p.Includes)
    /\ [][ (HandlesInclude /\ ResolvedPath(DirectText(last'.body)) \in Range(p.Includes))
              => (p' = p /\ pc' = "loop" /\ logged' = logged) ]_vars
    /\ [][ IsPrefix(p.Includes, p'.Includes) ]_vars

\* A.g4 (resolved to its Go variant), B.g4, then a path already included
C5_Witness ==
    /\ last.tok = "start" /\ last.name \in {"grammars", "include"}
    /\ last.did = "duplicate"
    /\ nread = 3
    /\ p.Includes = <<FileAG, FileB>>
    /\ Len(p.Grammars) = 2

\* C6: a grammars/include reference of which neither the Go variant nor the
\* literal path is on the disk is dropped with a warning: the Project stays as
\* it was, nothing is returned, and the loop goes on with the next token.
C6_MissingDropped ==
    [][ (HandlesInclude /\ NeitherExists(DirectText(last'.body)))
           => /\ p' = p
              /\ logged' = Append(logged, "missing grammar")
              /\ pc' = "loop" /\ pomRet' = pomRet
              /\ depth' = depth /\ grammarHandles' = grammarHandles ]_vars

\* B.g4 was included, then a missing reference was dropped; the loop goes on
C6_Witness ==
    /\ last.tok = "start" /\ last.name \in {"grammars", "include"}
    /\ NeitherExists(DirectText(last.body))
    /\ last.did = "missing"
    /\ p.Includes = <<FileB>> /\ Len(p.Grammars) = 1
    /\ logged = <<"missing grammar">>
    /\ pc = "loop"

Filenames(G) == [i \in 1..Len(G) |-> G[i].Filename]

\* the header scan of the file at path fails
ScanFails(path) == ParseG4(Disk(path), path).err # ""

\* C8: the Filenames of Grammars are a subsequence of Includes, each path at
\* most once, and every Type is PARSER, LEXER or COMBINED; an accepted include
\* whose header scan fails stays in Includes, adds nothing to Grammars, is
\* logged and does not end the parse; a successful scan appends one Grammar
\* whose Filename is the path just appended to Includes.
C8_GrammarsWithinIncludes ==
    /\ [] /\ IsSubsequence(Filenames(p.Grammars), p.Includes)
          /\ NoDuplicates(Filenames(p.Grammars))
          /\ Len(p.Grammars) <= Len(p.Includes)
          /\ \A i \in 1..Len(p.Grammars) : p.Grammars[i].Type \in Types
    /\ [][ LET path == ResolvedPath(DirectText(last'.body))
           IN  (HandlesInclude /\ ~IsNotExist(Stat(path)) /\ path \notin Range(p.Includes))
                  => /\ p'.Includes = Append(p.Includes, path)
                     /\ pc' = "loop"
                     /\ IF ScanFails(path)
                        THEN /\ p'.Grammars = p.Grammars
                             /\ logged' = Append(logged, "failed to parse grammar")
                        ELSE /\ Len(p'.Grammars) = Len(p.Grammars) + 1
                             /\ IsPrefix(p.Grammars, p'.Grammars)
                             /\ p'.Grammars[Len(p'.Grammars)].Filename = path
                             /\ p'.Grammars[Len(p'.Grammars)].Type \in Types
                             /\ logged' = logged ]_vars

\* B.g4 was classified, then C.g4, which has no header line, was accepted
C8_Witness ==
    /\ last.tok = "start" /\ last.did = "failed"
    /\ p.Includes = <<FileB, FileC>>
    /\ Filenames(p.Grammars) = <<FileB>>
    /\ logged = <<"failed to parse grammar">>
    /\ pc = "loop"

\* C9: every file handle ParseDescriptor and ParseGrammarHeader open is released
\* before the call returns, on every exit path, and at most one grammar handle
\* is open at any time.
C9_HandlesReleased ==
    /\ pc = "done" => (pomHandle = 0 /\ grammarHandles = 0)
    /\ grammarHandles <= 1

\* the nested elements of a body
NestedIn(body) == { body[i] : i \in { j \in 1..Len(body) : body[j].item = "element" } }

\* C10, as stated: every recognized element takes effect wherever it sits, also
\* nested inside another recognized element: an include nested in an element
\* the reader has handled, naming a file on the disk, is in Includes.
C10_AsStated ==
    (last.tok = "start" /\ last.name \in Recognized /\ pc = "loop") =>
        \A k \in NestedIn(last.body) :
            (k.name = "include" /\ ~IsNotExist(Stat(ResolvedPath(k.text))))
                => ResolvedPath(k.text) \in Range(p.Includes)

\* C10, amended: a recognized element takes effect at whatever depth the loop
\* finds it, that is under any number of unrecognized elements, and the effect
\* is that of its name and of the character data directly inside it; an
\* unrecognized element changes nothing and the loop goes on inside it; the
\* elements nested inside a recognized element are consumed with it and take
\* no effect.
C10_ByLocalName ==
    [][ HandlesStart =>
          LET name == last'.name
              text == DirectText(last'.body)
          IN  CASE name = "artifactId" ->
                     p' = [p EXCEPT !.FoundAntlr4MavenPlugin = (@ \/ text = PluginText)]
                [] name = "grammarName" ->
                     p' = [p EXCEPT !.LongName = text]
                [] name = "entryPoint" ->
                     p' = [p EXCEPT !.EntryPoint = text]
                [] name = "caseInsensitiveType" ->
                     p' = [p EXCEPT !.CaseInsensitiveType = text]
                [] name = "exampleFiles" ->
                     IF text = BadPatternText
                     THEN pc' = "done" /\ pomRet'.nil /\ pomRet'.err # ""
                     ELSE p' = [p EXCEPT !.Examples = Glob(PomDir \o <<"/">> \o text \o <<"/", "*">>).matches,
                                         !.ExampleRoot = <<"../">>]
                [] name \in {"grammars", "include"} ->
                     LET path == ResolvedPath(text)
                     IN  /\ [p' EXCEPT !.Includes = <<>>, !.Grammars = <<>>]
                              = [p EXCEPT !.Includes = <<>>, !.Grammars = <<>>]
                         /\ IF IsNotExist(Stat(path))
                            THEN p'.Includes = p.Includes
                            ELSE /\ path \in Range(p'.Includes)
                                 /\ Range(p'.Includes) = Range(p.Includes) \cup {path}
                [] OTHER ->
                     p' = p /\ depth' = depth + 1 /\ pc' = "loop" ]_vars

\* inside an unrecognized element, a grammars element naming A.g4 and holding a
\* nested include of B.g4: A's variant is included, B.g4 is not
C10_Witness ==
    /\ last.tok = "start" /\ last.name = "grammars"
    /\ last.depth = 1
    /\ NestedIn(last.body) = { Nested("include", <<"B", ".g4">>) }
    /\ last.did = "added"
    /\ p.Includes = <<FileAG>>

====
